---- MODULE Spec2Model ----
(***************************************************************************)
(* Model of the retrieval-and-narration pipeline of briefly.               *)
(*                                                                         *)
(*   backend/main.py                   the three podcast endpoints         *)
(*   backend/services/tts_service.py   script assembly and synthesis       *)
(*   backend/services/s3_service.py    upload                              *)
(*   backend/services/podcast_service.py  the podcasts table               *)
(*   backend/parallel_api/main.py      the two batch endpoints             *)
(*   backend/vector_search.py          the similarity search               *)
(*                                                                         *)
(* Every endpoint is an `async def` without a single await, so a worker    *)
(* runs one handler at a time: the model serves one request after the      *)
(* other.  External collaborators (retrieval, TTS engine, S3, database,    *)
(* summarizer, embedding model) answer nondeterministically: they return   *)
(* or they raise.                                                          *)
(***************************************************************************)
EXTENDS Integers, Sequences, FiniteSets, TLC

\* ------------------------------------------------------------------ bounds
MaxRequests == 1      \* requests served in one behaviour
MaxArticles == 2      \* longest list a retrieval returns
MaxItems    == 3      \* most results a search / extract / batch carries
TruncateAt  == 2      \* longest content kept whole (1000 characters, counted in chunks)

\* ------------------------------------------------------------------ values
PodcastEndpoints == {"user", "articles", "categories"}

NoScript == <<>>
NoUrl    == 0
NoIndex  == -1
NoSource == -1

ArticleIds   == {1, 2}

VARIABLES
    req,        \* the endpoint being served, or "idle"
    pc,         \* position inside the handler
    reqNo,      \* number of requests started so far (identifies the run)
    resp,       \* HTTP status of the current request, "none" while it runs
    articles,   \* main.py: articles
    script,     \* tts_service: script
    audio,      \* the file at output_path: "absent" | "partial" | "complete"
    s3_url,     \* main.py: s3_url
    bucket,     \* objects under podcasts/ in the bucket
    podcasts,   \* rows of the podcasts table
    log,        \* history of the steps of the current run
    tts_service,    \* parallel_api/main.py: the imported tts_service, or "None"
    items,          \* extract_result.results / batch.results
    idx,            \* the loop index (zero-based, as enumerate gives it)
    response_data,  \* parallel_api/main.py: response_data (or the batch locals)
    exc,            \* the exception that reached the outer handler, or "none"
    audio_made,     \* items for which generate_audio_from_text returned a file
    session,        \* the request's SQLAlchemy session: "active" | "inactive"
    pending,        \* rows INSERTed in the session's open transaction
    store,          \* committed rows of the articles table
    nextId          \* articles.id sequence

podVars == <<articles, script, audio, s3_url, bucket, podcasts, log>>
runVars == <<items, idx, response_data, exc, audio_made>>
dbVars  == <<session, pending, store, nextId>>

\* The functions checked on their own: vector_search.py's similarity search
\* and tts_service.py's script assembly, each called once on drawn inputs.
VARIABLES
    s_pc,            \* position inside search_by_vector_similarity
    table,           \* the articles table, in the order the store returns rows
    top_k,           \* vector_search.py: top_k
    max_distance,    \* the largest distance the caller accepts (1 - floor)
    query_embedding, \* vector_search.py: query_embedding
    caught,          \* the exception the except clause caught, or "none"
    result,          \* the list search_by_vector_similarity returned
    a_pc,            \* position of the script assembly call
    article_ids,     \* main.py: article_ids
    a_articles,      \* tts_service.py: articles
    script_parts     \* tts_service.py: script_parts

searchVars == <<s_pc, table, top_k, max_distance, query_embedding, caught, result>>
scriptVars == <<a_pc, article_ids, a_articles, script_parts>>

\* Two podcast runs at once, in worker processes that share the output
\* directory, the bucket and the podcasts table.
VARIABLES
    clock,          \* datetime.now(), in whole seconds
    r_pc,           \* position of each run inside its handler
    output_path,    \* tts_service.py: output_path of each run
    s3_key,         \* s3_service.py: s3_key of each run
    files,          \* generated_audio/: file name -> the run whose audio it holds
    objects,        \* the bucket: key -> the run whose audio it holds
    links           \* podcasts.s3_link of the row each run inserted

runsVars   == <<clock, r_pc, output_path, s3_key, files, objects, links>>
fnVars     == <<searchVars, scriptVars, runsVars>>
vars    == <<req, pc, reqNo, resp, podVars, tts_service, fnVars, runVars, dbVars>>

\* ------------------------------------------------------- tts_service.py
\* A Python string is a sequence of chunks.  A chunk is one character of an
\* article's content, or one fixed piece of the script's template; a content
\* string may itself hold the text of a template piece.
Ch(c)             == [t |-> "char", s |-> c, n |-> 0]
Label(i, category) == [t |-> "label", s |-> category, n |-> i]
SourceLine(source) == [t |-> "source", s |-> source, n |-> 0]
IntroLine(count)  == [t |-> "intro", s |-> "", n |-> count]
OutroLine         == [t |-> "outro", s |-> "", n |-> 0]
Newline           == Ch("\n")
Marker            == <<Ch("."), Ch("."), Ch(".")>>

\* A dict entry: the key is missing, or holds None, or holds a str.  The
\* texts (summary, text) are chunk sequences, the names (category_name,
\* source) are atoms.
Str(v)      == [st |-> "str", v |-> v]
NoneText    == [st |-> "None", v |-> <<>>]
MissingText == [st |-> "missing", v |-> <<>>]
NoneName    == [st |-> "None", v |-> ""]
MissingName == [st |-> "missing", v |-> ""]

Article(id, summary, text, category_name, source) ==
    [id |-> id, summary |-> summary, text |-> text,
     category_name |-> category_name, source |-> source]

\* dict.get(key, default): the default answers for a missing key only.
Get(article, key, default) ==
    IF article[key].st = "missing" THEN default ELSE article[key]

\* `a or b`: a when it is truthy (a non-empty str), b otherwise.
Or(a, b) == IF a.st = "str" /\ a.v # <<>> THEN a ELSE b

\* What an f-string puts for a name: None is written as the word None.
Format(x) == IF x.st = "None" THEN "None" ELSE x.v

\* content = article.get('summary') or article.get('text', '')
Content(article) ==
    Or(Get(article, "summary", NoneText), Get(article, "text", Str(<<>>)))

\* if len(content) > 1000: content = content[:1000] + "..."
TruncateMut(content) == content
Truncate(content) ==
    IF Len(content) > TruncateAt
      THEN SubSeq(content, 1, TruncateAt) \o Marker
      ELSE content

\* f"Story {idx}: {category}\n" f"{content}\n" f"Source: {source}\n\n"
SegmentMut(i, article) ==
    <<Label(i - 1, Format(Get(article, "category_name", Str("General")))), Newline>>
    \o Truncate(Content(article).v)
    \o <<Newline,
         SourceLine(Format(Get(article, "source", Str("Unknown source")))),
         Newline, Newline>>
Segment(i, article) ==
    <<Label(i, Format(Get(article, "category_name", Str("General")))), Newline>>
    \o Truncate(Content(article).v)
    \o <<Newline,
         SourceLine(Format(Get(article, "source", Str("Unknown source")))),
         Newline, Newline>>

\* len(content) raises TypeError when content is None.
ScriptRaisesMut(arts) == arts = <<>>
ScriptRaises(arts) ==
    \E i \in 1..Len(arts) : Content(arts[i]).st = "None"

\* script_parts: the intro with the count, one segment per article in input
\* order (enumerate(articles, 1)), the outro.
ScriptPartsMut(arts) ==
    <<<<IntroLine(Len(arts)), Newline, Newline>>>>
    \o [i \in 1..Len(arts) |-> Segment(i, arts[Len(arts) + 1 - i])]
    \o <<<<OutroLine>>>>
ScriptParts(arts) ==
    <<<<IntroLine(Len(arts)), Newline, Newline>>>>
    \o [i \in 1..Len(arts) |-> Segment(i, arts[i])]
    \o <<<<OutroLine>>>>

\* "".join(script_parts)
RECURSIVE Join(_)
Join(parts) ==
    IF parts = <<>> THEN <<>> ELSE parts[1] \o Join(Tail(parts))

CreatePodcastScript(arts) == Join(ScriptParts(arts))

\* The articles the store holds in the podcast application.
StoredArticle(id) ==
    IF id = 1
      THEN Article(1, Str(<<Ch("a")>>), Str(<<Ch("b")>>), Str("Tech"), Str("wire"))
      ELSE Article(id, NoneText, Str(<<Ch("b"), Ch("b")>>), Str("World"), Str("post"))

ArticleLists == UNION {{[i \in 1..n |-> StoredArticle(ids[i])] : ids \in [1..n -> ArticleIds]}
                          : n \in 0..MaxArticles}

\* ---------------------------------------------------------- backend/main.py
\* `if not articles: raise HTTPException(404)`
NoArticlesMut(arts) == FALSE
NoArticles(arts) == Len(arts) = 0

\* The statement that follows generate_audio_from_articles in each endpoint:
\* only /podcast/generate/user uploads and records, the other two return.
AfterAudioMut(endpoint) == IF endpoint = "user" THEN "cleanup" ELSE "respond"
AfterAudio(endpoint) == IF endpoint = "user" THEN "upload" ELSE "respond"

\* except Exception -> HTTPException(500); except HTTPException -> re-raised
Abort(status) ==
    /\ resp' = status
    /\ pc' = "done"

Ev(name) == log' = Append(log, name)

\* A request arrives.
StartPodcast(endpoint) ==
    /\ req = "idle"
    /\ reqNo < MaxRequests
    /\ req' = endpoint
    /\ reqNo' = reqNo + 1
    /\ pc' = "fetch"
    /\ resp' = "none"
    /\ UNCHANGED <<podVars, tts_service, fnVars, runVars, dbVars>>

\* ArticleService.get_articles_by_*: returns a list (possibly empty) or raises.
FetchArticles ==
    /\ req \in PodcastEndpoints
    /\ pc = "fetch"
    /\ \/ \E arts \in ArticleLists :
            /\ articles' = arts
            /\ Ev("fetch")
            /\ IF NoArticles(arts)
                 THEN Abort("404")
                 ELSE /\ pc' = "script"
                      /\ resp' = resp
       \/ /\ Abort("500")
          /\ Ev("fetch_failed")
          /\ UNCHANGED articles
    /\ UNCHANGED <<req, reqNo, script, audio, s3_url, bucket, podcasts,
                   tts_service, fnVars, runVars, dbVars>>

\* generate_audio_from_articles, lines 33-44: makedirs, script, file name.
AssembleScript ==
    /\ req \in PodcastEndpoints
    /\ pc = "script"
    /\ \/ /\ script' = CreatePodcastScript(articles)
          /\ Ev("script")
          /\ pc' = "convert"
          /\ resp' = resp
       \/ /\ Abort("500")                      \* os.makedirs raises
          /\ Ev("script_failed")
          /\ UNCHANGED script
    /\ UNCHANGED <<req, reqNo, articles, audio, s3_url, bucket, podcasts,
                   tts_service, fnVars, runVars, dbVars>>

\* lines 47-51: client.text_to_speech.convert(text=script)
ConvertMut ==
    /\ req \in PodcastEndpoints
    /\ pc \in {"script", "convert"}
    /\ \/ /\ Ev("tts_start")
          /\ pc' = "write"
          /\ resp' = resp
       \/ /\ Ev("tts_failed")
          /\ Abort("500")
    /\ UNCHANGED <<req, reqNo, articles, script, audio, s3_url, bucket, podcasts,
                   tts_service, fnVars, runVars, dbVars>>
Convert ==
    /\ req \in PodcastEndpoints
    /\ pc = "convert"
    /\ \/ /\ Ev("tts_start")
          /\ pc' = "write"
          /\ resp' = resp
       \/ /\ Ev("tts_failed")
          /\ Abort("500")
    /\ UNCHANGED <<req, reqNo, articles, script, audio, s3_url, bucket, podcasts,
                   tts_service, fnVars, runVars, dbVars>>

\* lines 54-58: open(output_path, 'wb'), write every chunk, return.
\* open() creates the file; a stream that breaks leaves what was written.
WriteAudio ==
    /\ req \in PodcastEndpoints
    /\ pc = "write"
    /\ \/ /\ audio' = "complete"
          /\ Ev("audio_written")
          /\ pc' = AfterAudio(req)
          /\ resp' = resp
       \/ /\ audio' = "partial"
          /\ Ev("tts_failed")
          /\ Abort("500")
    /\ UNCHANGED <<req, reqNo, articles, script, s3_url, bucket, podcasts,
                   tts_service, fnVars, runVars, dbVars>>

\* s3_service.upload_podcast(audio_path): upload_file, then the URL of the key.
\* The object and its URL are named here by the run that uploaded them.
Upload ==
    /\ req \in PodcastEndpoints
    /\ pc = "upload"
    /\ \/ /\ bucket' = bucket \cup {[key |-> reqNo, body |-> audio]}
          /\ s3_url' = reqNo
          /\ log' = log \o <<"upload_start", "upload_done">>
          /\ pc' = "record"
          /\ resp' = resp
       \/ /\ log' = log \o <<"upload_start", "upload_failed">>
          /\ Abort("500")
          /\ UNCHANGED <<bucket, s3_url>>
    /\ UNCHANGED <<req, reqNo, articles, script, audio, podcasts,
                   tts_service, fnVars, runVars, dbVars>>

\* podcast_service.create_podcast_record: one INSERT ... RETURNING id.
\* `run` is not a column: it records which request inserted the row.
NewRecord(id, scr, link) ==
    [id |-> id, script |-> scr, s3_link |-> link, run |-> reqNo]

CreatePodcastRecordMut ==
    /\ req \in PodcastEndpoints
    /\ pc = "record"
    /\ podcasts' = podcasts \cup {NewRecord(Cardinality(podcasts) + 1, script, s3_url)}
    /\ \/ /\ Ev("record_created")
          /\ pc' = "cleanup"
          /\ resp' = resp
       \/ /\ Ev("record_failed")
          /\ Abort("500")
    /\ UNCHANGED <<req, reqNo, articles, script, audio, s3_url, bucket,
                   tts_service, fnVars, runVars, dbVars>>
CreatePodcastRecord ==
    /\ req \in PodcastEndpoints
    /\ pc = "record"
    /\ \/ /\ podcasts' = podcasts \cup {NewRecord(Cardinality(podcasts) + 1, script, s3_url)}
          /\ Ev("record_created")
          /\ pc' = "cleanup"
          /\ resp' = resp
       \/ /\ Ev("record_failed")
          /\ Abort("500")
          /\ UNCHANGED podcasts
    /\ UNCHANGED <<req, reqNo, articles, script, audio, s3_url, bucket,
                   tts_service, fnVars, runVars, dbVars>>

\* lines 155-157: if os.path.exists(audio_path): os.remove(audio_path)
Cleanup ==
    /\ req \in PodcastEndpoints
    /\ pc = "cleanup"
    /\ \/ /\ audio' = "absent"
          /\ Ev("cleanup")
          /\ pc' = "respond"
          /\ resp' = resp
       \/ /\ Ev("cleanup_failed")               \* os.remove raises
          /\ Abort("500")
          /\ UNCHANGED audio
    /\ UNCHANGED <<req, reqNo, articles, script, s3_url, bucket, podcasts,
                   tts_service, fnVars, runVars, dbVars>>

\* return PodcastResponse(success=True, ...)
Respond ==
    /\ req \in PodcastEndpoints
    /\ pc = "respond"
    /\ resp' = "200"
    /\ pc' = "done"
    /\ UNCHANGED <<req, reqNo, podVars, tts_service, fnVars, runVars, dbVars>>

\* ------------------------------------------------- parallel_api/main.py
BatchEndpoints == {"news", "batch"}

\* What one extracted result does to the loop body, named by the first step
\* of the body that does not go the plain way:
\*   notext       neither excerpts nor full_content
\*   nosummary    create_audio_summary returns None (it catches its own errors)
\*   tts_raise    tts_service.generate_audio_from_text raises
\*   embed_raise  embedding_service.generate_embedding raises
\*   embed_null   generate_embedding returns None
\*   flush_raise  the INSERT sent by db.flush() is rejected by the database
\*   ok           every step returns
NewsFates  == {"ok", "notext", "nosummary", "tts_raise", "embed_raise", "embed_null",
               "flush_raise"}
\* /articles/batch/ neither summarizes nor synthesizes.
BatchFates == {"ok", "notext", "embed_raise", "embed_null", "flush_raise"}

ItemLists(fates, n) == UNION {[1..k -> fates] : k \in 0..n}

\* result.url of the item at loop index i
Url(i) == i

\* The error strings, by what they carry.
\* f"Article {idx}: No text content" / f"Result {idx}: No text content available"
ErrNoText(i) == [idx |-> i, url |-> NoSource, msg |-> "no text content"]
\* f"Article {idx}: Failed to generate summary"
ErrNoSummary(i) == [idx |-> i, url |-> NoSource, msg |-> "no summary"]
\* f"Article {idx} ({result.url ...}): {str(e)}"
ErrException(i, e) == [idx |-> i, url |-> Url(i), msg |-> e]
\* "No articles found" / "No content extracted"
ErrWorkflow(m) == [idx |-> NoIndex, url |-> NoSource, msg |-> m]

\* Article(...): the id the flush assigns, the vector column, and (not a
\* column) the request that added the row.
Row(id, vec) == [id |-> id, vector |-> vec, run |-> reqNo]

EmptyNews ==
    [articles_found |-> 0, articles_processed |-> 0, articles_with_audio |-> 0,
     articles |-> <<>>, errors |-> <<>>, success |-> FALSE]
\* created_articles, article_ids, errors of process_parallel_extract_batch
EmptyBatch ==
    [articles |-> <<>>, article_ids |-> <<>>, errors |-> <<>>, success |-> FALSE]
NoResponse == [errors |-> <<>>]

AddErrorMut(e) == response_data' = [response_data EXCEPT !.errors = Append(Append(@, e), e)]
AddError(e) == response_data' = [response_data EXCEPT !.errors = Append(@, e)]

\* db.add(article); db.flush().  A flush that fails rolls the session's
\* database transaction back and leaves the session inactive: until
\* db.rollback() is called every further flush (and the commit) raises.
FlushRaises(fate) == session = "inactive" \/ fate = "flush_raise"

FlushMut(fate, vec) ==
    IF session = "inactive"
      THEN UNCHANGED dbVars
      ELSE IF fate = "flush_raise"
             THEN /\ session' = "inactive"
                  /\ pending' = {}
                  /\ UNCHANGED <<store, nextId>>
             ELSE /\ store' = store \cup {Row(nextId, vec)}
                  /\ nextId' = nextId + 1
                  /\ UNCHANGED <<session, pending>>
Flush(fate, vec) ==
    IF session = "inactive"
      THEN UNCHANGED dbVars
      ELSE IF fate = "flush_raise"
             THEN /\ session' = "inactive"
                  /\ pending' = {}
                  /\ UNCHANGED <<store, nextId>>
             ELSE /\ pending' = pending \cup {Row(nextId, vec)}
                  /\ nextId' = nextId + 1
                  /\ UNCHANGED <<session, store>>

FlushError == IF session = "inactive" THEN "pending rollback" ELSE "flush"

\* The vector generate_embedding hands to Article(vector=embedding).
Embedding(fate) == IF fate = "embed_null" THEN "null" ELSE "vec"

\* except Exception as e: db.rollback(); raise HTTPException(500)
Rollback(e) ==
    /\ pending' = {}
    /\ session' = "active"
    /\ exc' = e
    /\ resp' = "500"
    /\ pc' = "done"
    /\ UNCHANGED <<store, nextId>>

StartBatchRequest(endpoint, its) ==
    /\ req = "idle"
    /\ reqNo < MaxRequests
    /\ req' = endpoint
    /\ reqNo' = reqNo + 1
    /\ items' = its
    /\ idx' = 0
    /\ exc' = "none"
    /\ audio_made' = {}
    /\ session' = "active"               \* get_db: a fresh session per request
    /\ pending' = {}
    /\ UNCHANGED <<podVars, tts_service, fnVars, store, nextId>>

\* generate_news_with_audio, lines 253-269
StartNews ==
    /\ StartBatchRequest("news", <<>>)
    /\ IF tts_service = "None"
         THEN /\ resp' = "503"
              /\ pc' = "done"
              /\ response_data' = NoResponse
         ELSE /\ resp' = "none"
              /\ pc' = "search"
              /\ response_data' = EmptyNews

\* lines 293-305: parallel_client.beta.search
Search ==
    /\ req = "news"
    /\ pc = "search"
    /\ \/ \E n \in 0..MaxItems :
            IF n = 0
              THEN /\ response_data' = [response_data EXCEPT
                                          !.errors = Append(@, ErrWorkflow("no articles found"))]
                   /\ resp' = "200"
                   /\ pc' = "done"
                   /\ UNCHANGED <<exc, dbVars>>
              ELSE /\ response_data' = [response_data EXCEPT !.articles_found = n]
                   /\ pc' = "extract"
                   /\ UNCHANGED <<resp, exc, dbVars>>
       \/ /\ Rollback("search")
          /\ AddError(ErrWorkflow("workflow error"))
    /\ UNCHANGED <<req, reqNo, podVars, tts_service, fnVars, items, idx, audio_made>>

\* lines 308-327: one URL per search result goes to extract, which returns a
\* result for each URL it could read.
Extract ==
    /\ req = "news"
    /\ pc = "extract"
    /\ \/ \E its \in ItemLists(NewsFates, response_data.articles_found) :
            /\ items' = its
            /\ IF Len(its) = 0
                 THEN /\ AddError(ErrWorkflow("no content extracted"))
                      /\ resp' = "200"
                      /\ pc' = "done"
                 ELSE /\ pc' = "loop"
                      /\ UNCHANGED <<resp, response_data>>
            /\ UNCHANGED <<exc, dbVars>>
       \/ /\ Rollback("extract")
          /\ AddError(ErrWorkflow("workflow error"))
          /\ UNCHANGED items
    /\ UNCHANGED <<req, reqNo, podVars, tts_service, fnVars, idx, audio_made>>

\* lines 329-416: one pass of the loop body, with its own try / except.
NewsItem ==
    /\ req = "news"
    /\ pc = "loop"
    /\ idx < Len(items)
    /\ LET fate == items[idx + 1] IN
       \/ /\ fate = "notext"
          /\ AddError(ErrNoText(idx))
          /\ UNCHANGED <<audio_made, dbVars>>
       \/ /\ fate = "nosummary"
          /\ AddError(ErrNoSummary(idx))
          /\ UNCHANGED <<audio_made, dbVars>>
       \/ /\ fate = "tts_raise"
          /\ AddError(ErrException(idx, "tts"))
          /\ UNCHANGED <<audio_made, dbVars>>
       \/ /\ fate = "embed_raise"
          /\ audio_made' = audio_made \cup {idx}
          /\ AddError(ErrException(idx, "embedding"))
          /\ UNCHANGED dbVars
       \/ /\ fate \in {"ok", "embed_null", "flush_raise"}
          /\ audio_made' = audio_made \cup {idx}
          /\ Flush(fate, Embedding(fate))
          /\ IF FlushRaises(fate)
               THEN AddError(ErrException(idx, FlushError))
               ELSE response_data' = [response_data EXCEPT
                        !.articles = Append(@, [article_id |-> nextId, source |-> Url(idx),
                                                item |-> idx]),
                        !.articles_with_audio = @ + 1,
                        !.articles_processed = @ + 1]
    /\ idx' = idx + 1
    /\ UNCHANGED <<req, pc, reqNo, resp, podVars, tts_service, fnVars, items, exc>>

\* lines 418-435: db.commit() and the response, or the outer handler.
CommitNews ==
    /\ req = "news"
    /\ pc = "loop"
    /\ idx = Len(items)
    /\ \/ /\ session = "active"
          /\ store' = store \cup pending
          /\ pending' = {}
          /\ response_data' = [response_data EXCEPT
                                 !.success = response_data.articles_with_audio > 0]
          /\ resp' = "200"
          /\ pc' = "done"
          /\ UNCHANGED <<session, nextId, exc>>
       \/ /\ session = "active"                \* the database fails the COMMIT
          /\ Rollback("commit")
          /\ AddError(ErrWorkflow("workflow error"))
       \/ /\ session = "inactive"
          /\ Rollback("pending rollback")
          /\ AddError(ErrWorkflow("workflow error"))
    /\ UNCHANGED <<req, reqNo, podVars, tts_service, fnVars, items, idx, audio_made>>

\* process_parallel_extract_batch, lines 101-117: the request carries the results.
StartBatch ==
    /\ \E its \in ItemLists(BatchFates, MaxItems) : StartBatchRequest("batch", its)
    /\ resp' = "none"
    /\ pc' = "loop"
    /\ response_data' = EmptyBatch

\* lines 118-167: one pass of the loop body.
BatchItem ==
    /\ req = "batch"
    /\ pc = "loop"
    /\ idx < Len(items)
    /\ LET fate == items[idx + 1] IN
       \/ /\ fate = "notext"
          /\ AddError(ErrNoText(idx))
          /\ UNCHANGED dbVars
       \/ /\ fate = "embed_raise"
          /\ AddError(ErrException(idx, "embedding"))
          /\ UNCHANGED dbVars
       \/ /\ fate \in {"ok", "embed_null", "flush_raise"}
          /\ Flush(fate, Embedding(fate))
          /\ IF FlushRaises(fate)
               THEN AddError(ErrException(idx, FlushError))
               ELSE response_data' = [response_data EXCEPT
                        !.articles = Append(@, [article_id |-> nextId, source |-> Url(idx),
                                                item |-> idx]),
                        !.article_ids = Append(@, nextId)]
    /\ idx' = idx + 1
    /\ UNCHANGED <<req, pc, reqNo, resp, podVars, tts_service, fnVars, items, exc, audio_made>>

\* lines 169-187
CommitBatch ==
    /\ req = "batch"
    /\ pc = "loop"
    /\ idx = Len(items)
    /\ \/ /\ session = "active"
          /\ store' = store \cup pending
          /\ pending' = {}
          /\ response_data' = [response_data EXCEPT
                                 !.success = Len(response_data.article_ids) > 0]
          /\ resp' = "200"
          /\ pc' = "done"
          /\ UNCHANGED <<session, nextId, exc>>
       \/ /\ session = "active"
          /\ Rollback("commit")
          /\ UNCHANGED response_data
       \/ /\ session = "inactive"
          /\ Rollback("pending rollback")
          /\ UNCHANGED response_data
    /\ UNCHANGED <<req, reqNo, podVars, tts_service, fnVars, items, idx, audio_made>>

\* ------------------------------------------------------------ the worker
\* The response has been sent; the handler's locals are gone and the worker
\* takes the next request.  The session of the request is closed.
Finish ==
    /\ req # "idle"
    /\ pc = "done"
    /\ req' = "idle"
    /\ pc' = "idle"
    /\ resp' = "none"
    /\ articles' = <<>>
    /\ script' = NoScript
    /\ audio' = "absent"
    /\ s3_url' = NoUrl
    /\ log' = <<>>
    /\ items' = <<>>
    /\ idx' = 0
    /\ response_data' = NoResponse
    /\ exc' = "none"
    /\ audio_made' = {}
    /\ UNCHANGED <<reqNo, bucket, podcasts, tts_service, fnVars, dbVars>>

\* ------------------------------------------------ two runs that overlap
MaxClock == 1      \* seconds that pass in one behaviour

Runs   == {1, 2}
NoFile == -1
NoRun  == 0
Names  == 0..MaxClock

\* No overlapping runs are being followed.
NoRuns ==
    /\ clock = 0
    /\ r_pc = [p \in Runs |-> "idle"]
    /\ output_path = [p \in Runs |-> NoFile]
    /\ s3_key = [p \in Runs |-> NoFile]
    /\ files = [f \in Names |-> NoRun]
    /\ objects = [k \in Names |-> NoRun]
    /\ links = [p \in Runs |-> NoFile]

\* No script is being assembled on its own.
NoAssembly ==
    /\ a_pc = "idle"
    /\ article_ids = <<>>
    /\ a_articles = <<>>
    /\ script_parts = <<>>

\* No search is in progress (the other applications never call the function).
NoSearch ==
    /\ s_pc = "idle"
    /\ table = <<>>
    /\ top_k = 0
    /\ max_distance = 0
    /\ query_embedding = "unset"
    /\ caught = "none"
    /\ result = <<>>

Idle ==
    /\ req = "idle"
    /\ pc = "idle"
    /\ reqNo = 0
    /\ resp = "none"
    /\ articles = <<>>
    /\ script = NoScript
    /\ audio = "absent"
    /\ s3_url = NoUrl
    /\ bucket = {}
    /\ podcasts = {}
    /\ log = <<>>
    /\ items = <<>>
    /\ idx = 0
    /\ response_data = NoResponse
    /\ exc = "none"
    /\ audio_made = {}
    /\ session = "active"
    /\ pending = {}
    /\ store = {}
    /\ nextId = 1

\* backend/main.py: the podcast application (its tts_service always exists).
InitPodcast ==
    /\ Idle
    /\ NoRuns
    /\ tts_service = "tts_service"
    /\ NoSearch
    /\ NoAssembly

NextPodcast ==
    \/ \E e \in PodcastEndpoints : StartPodcast(e)
    \/ FetchArticles
    \/ AssembleScript
    \/ Convert
    \/ WriteAudio
    \/ Upload
    \/ CreatePodcastRecord
    \/ Cleanup
    \/ Respond
    \/ Finish

SpecPodcast == InitPodcast /\ [][NextPodcast]_vars

\* parallel_api/main.py: the ingestion application; the import of tts_service
\* at module load has either worked or left None.
InitNews ==
    /\ Idle
    /\ NoRuns
    /\ tts_service \in {"tts_service", "None"}
    /\ NoSearch
    /\ NoAssembly

NextNews ==
    \/ StartNews
    \/ Search
    \/ Extract
    \/ NewsItem
    \/ CommitNews
    \/ StartBatch
    \/ BatchItem
    \/ CommitBatch
    \/ Finish

SpecNews == InitNews /\ [][NextNews]_vars

\* ------------------------------------------------------- vector_search.py
\* search_by_vector_similarity(query, top_k), called once.  A row of the
\* table is [id, distance]: distance is what `vector <=> query` gives for the
\* row, NoDistance (SQL NULL, Python None) for an article without a vector.
MaxRows == 3      \* most rows the articles table holds

NoDistance == -1
Distances  == {0, 1, 2}
Rows   == [id : 1..MaxRows, distance : Distances \cup {NoDistance}]
Tables == UNION {{t \in [1..n -> Rows] : {t[i].id : i \in 1..n} = 1..n}
                    : n \in 0..MaxRows}

\* sorted(rows, key=lambda x: x['distance']): Python's sort is stable, a row
\* goes behind every row whose distance is not larger.
Insert(row, sorted) ==
    LET k == Cardinality({j \in 1..Len(sorted) :
                              sorted[j].distance <= row.distance})
    IN  SubSeq(sorted, 1, k) \o <<row>> \o SubSeq(sorted, k + 1, Len(sorted))

RECURSIVE Sorted(_)
Sorted(rows) ==
    IF rows = <<>> THEN <<>>
    ELSE Insert(rows[Len(rows)], Sorted(SubSeq(rows, 1, Len(rows) - 1)))

\* rows_sorted = sorted(...)[:top_k]
RowsSorted(rows, k) ==
    LET all == Sorted(rows)
    IN  SubSeq(all, 1, IF k < Len(all) THEN k ELSE Len(all))

\* Comparing None with a float, or with None, raises TypeError: any sort of
\* two or more rows that meets a None compares it.  A single row is not
\* compared, but printing its distance with :.4f raises TypeError as well.
SortRaises(rows) ==
    \E i \in 1..Len(rows) : rows[i].distance = NoDistance

\* generate_embedding gives a vector or nothing; without one the function
\* returns an empty list before it connects.
GenerateEmbedding ==
    /\ s_pc = "start"
    /\ \E e \in {"vector", "None"} :
        /\ query_embedding' = e
        /\ IF e = "None"
             THEN s_pc' = "returned" /\ result' = <<>>
             ELSE s_pc' = "connect" /\ UNCHANGED result
    /\ UNCHANGED <<table, top_k, max_distance, caught>>
    /\ UNCHANGED <<req, pc, reqNo, resp, podVars, tts_service, scriptVars, runsVars,
                   runVars, dbVars>>

\* psycopg2.connect is called before the try: when the store is unreachable
\* its OperationalError leaves the function.
Connect ==
    /\ s_pc = "connect"
    /\ \E ok \in BOOLEAN :
        s_pc' = IF ok THEN "execute" ELSE "raised"
    /\ UNCHANGED <<table, top_k, max_distance, query_embedding, caught, result>>
    /\ UNCHANGED <<req, pc, reqNo, resp, podVars, tts_service, scriptVars, runsVars,
                   runVars, dbVars>>

\* The try block: execute, fetchall, sort, cut, print, return.  Whatever is
\* raised inside is caught, printed, and an empty list returned.
Execute ==
    /\ s_pc = "execute"
    /\ \E ok \in BOOLEAN :
        IF ~ok
          THEN caught' = "DatabaseError" /\ result' = <<>>
          ELSE IF table = <<>>
                 THEN caught' = "none" /\ result' = <<>>
                 ELSE IF SortRaises(table)
                        THEN caught' = "TypeError" /\ result' = <<>>
                        ELSE /\ caught' = "none"
                             /\ result' = RowsSorted(table, top_k)
    /\ s_pc' = "returned"
    /\ UNCHANGED <<table, top_k, max_distance, query_embedding>>
    /\ UNCHANGED <<req, pc, reqNo, resp, podVars, tts_service, scriptVars, runsVars,
                   runVars, dbVars>>

InitSearch ==
    /\ Idle
    /\ NoRuns
    /\ tts_service = "tts_service"
    /\ NoAssembly
    /\ s_pc = "start"
    /\ table \in Tables
    /\ top_k \in 1..MaxRows
    /\ max_distance \in Distances
    /\ query_embedding = "unset"
    /\ caught = "none"
    /\ result = <<>>

NextSearch ==
    \/ GenerateEmbedding
    \/ Connect
    \/ Execute

SpecSearch == InitSearch /\ [][NextSearch]_vars

\* ----------------------------------------- script assembly, called once
\* The contents the assembly is tried on: every string of a's and dots up to
\* one chunk past the cut, and one that is the text of a label.
Letters  == {Ch("a"), Ch(".")}
Contents == UNION {[1..n -> Letters] : n \in 0..(TruncateAt + 1)}
                \cup {<<Label(1, "Tech")>>}
LongText == [i \in 1..(TruncateAt + 1) |-> Ch("a")]

\* The dicts it is tried on: each content as the summary, a summary that is
\* missing or None over a short or a long or a missing text, and each way a
\* category and a source can be present or absent.
Articles ==
    {Article(1, Str(c), Str(<<Ch("a")>>), Str("Tech"), Str("wire")) : c \in Contents}
    \cup {Article(1, sm, tx, Str("Tech"), Str("wire")) :
              sm \in {NoneText, MissingText},
              tx \in {Str(<<Ch(".")>>), Str(LongText), MissingText}}
    \cup {Article(1, Str(<<Ch("a")>>), Str(<<Ch("a")>>), cat, src) :
              cat \in {Str("Tech"), NoneName, MissingName},
              src \in {Str("wire"), NoneName, MissingName}}

ArticleInputs == UNION {[1..n -> Articles] : n \in 0..MaxArticles}

\* article_ids of a request: distinct ids, of stored articles or of none.
RequestIds == ArticleIds \cup {3}
IdLists == UNION {{ids \in [1..n -> RequestIds] :
                       \A i, j \in 1..n : ids[i] = ids[j] => i = j}
                      : n \in 1..(MaxArticles + 1)}

\* ArticleService.get_articles_by_ids: the stored articles among the ids, in
\* the order of the ids.
GetArticlesByIds(ids) ==
    LET found == SelectSeq(ids, LAMBDA id : id \in ArticleIds)
    IN  [k \in 1..Len(found) |-> StoredArticle(found[k])]

\* generate_podcast_from_articles: fetch by ids, 404 when nothing was found.
SelectByIds ==
    /\ a_pc = "select"
    /\ a_articles' = GetArticlesByIds(article_ids)
    /\ a_pc' = IF NoArticles(a_articles') THEN "404" ELSE "assemble"
    /\ UNCHANGED <<article_ids, script_parts>>
    /\ UNCHANGED <<req, pc, reqNo, resp, podVars, tts_service, searchVars, runsVars,
                   runVars, dbVars>>

\* _create_podcast_script(articles)
Assemble ==
    /\ a_pc = "assemble"
    /\ IF ScriptRaises(a_articles)
         THEN a_pc' = "raised" /\ UNCHANGED script_parts
         ELSE a_pc' = "done" /\ script_parts' = ScriptParts(a_articles)
    /\ UNCHANGED <<article_ids, a_articles>>
    /\ UNCHANGED <<req, pc, reqNo, resp, podVars, tts_service, searchVars, runsVars,
                   runVars, dbVars>>

InitScript ==
    /\ Idle
    /\ NoRuns
    /\ tts_service = "tts_service"
    /\ NoSearch
    /\ script_parts = <<>>
    /\ \/ a_pc = "select" /\ article_ids \in IdLists /\ a_articles = <<>>
       \/ a_pc = "assemble" /\ article_ids = <<>> /\ a_articles \in ArticleInputs

NextScript ==
    \/ SelectByIds
    \/ Assemble

SpecScript == InitScript /\ [][NextScript]_vars

\* ------------------------- parallel_api/main.py: /articles/ and DELETE
\* The two single-article endpoints of the ingestion application, each a
\* handler that runs to its response in one piece.
MaxCalls == 3      \* single-article requests served in one behaviour

\* create_article: the embedding (a vector, or None for a text the model
\* gives nothing for), db.add, db.commit, db.refresh.  Whatever raises is
\* answered by db.rollback() and a 500; an INSERT that was sent before the
\* commit failed has taken an id from the sequence all the same.
CreateArticle ==
    /\ req = "idle"
    /\ reqNo < MaxCalls
    /\ reqNo' = reqNo + 1
    /\ \/ \E vec \in {"vec", "null"} :
            /\ store' = store \cup {[Row(nextId, vec) EXCEPT !.run = reqNo + 1]}
            /\ nextId' = nextId + 1
            /\ resp' = "201"
       \/ /\ resp' = "500"                    \* generate_embedding raises
          /\ UNCHANGED <<store, nextId>>
       \/ /\ resp' = "500"                    \* db.commit raises
          /\ \E n \in {nextId, nextId + 1} : nextId' = n
          /\ UNCHANGED store
    /\ UNCHANGED <<req, pc, podVars, tts_service, fnVars, runVars, session, pending>>

\* delete_article: 404 for an id without a row; else db.delete, db.commit.
\* A commit that raises is not caught: the row stays, the answer is a 500.
DeleteArticle ==
    /\ req = "idle"
    /\ reqNo < MaxCalls
    /\ reqNo' = reqNo + 1
    /\ \E article_id \in 1..MaxCalls :
        LET found == {r \in store : r.id = article_id}
        IN  IF found = {}
              THEN resp' = "404" /\ UNCHANGED store
              ELSE \/ resp' = "204" /\ store' = store \ found
                   \/ resp' = "500" /\ UNCHANGED store
    /\ UNCHANGED <<req, pc, podVars, tts_service, fnVars, runVars, session, pending, nextId>>

InitArticles ==
    /\ Idle
    /\ NoRuns
    /\ tts_service \in {"tts_service", "None"}
    /\ NoSearch
    /\ NoAssembly

NextArticles ==
    \/ CreateArticle
    \/ DeleteArticle

SpecArticles == InitArticles /\ [][NextArticles]_vars

\* -------------------------------- two podcast runs in the same seconds
\* generate_podcast_from_user_preferences from the synthesis on, for two
\* runs whose steps interleave; nothing in the code orders them.
OtherVars == <<req, pc, reqNo, resp, podVars, tts_service, searchVars, scriptVars,
               runVars, dbVars>>

\* datetime.now() moves on.
Tick ==
    /\ clock < MaxClock
    /\ clock' = clock + 1
    /\ UNCHANGED <<r_pc, output_path, s3_key, files, objects, links>>
    /\ UNCHANGED OtherVars

\* tts_service.py 41-44: output_filename = f"podcast_{timestamp}.mp3", the
\* timestamp to the second.
NameFile(p) ==
    /\ r_pc[p] = "idle"
    /\ output_path' = [output_path EXCEPT ![p] = clock]
    /\ r_pc' = [r_pc EXCEPT ![p] = "write"]
    /\ UNCHANGED <<clock, s3_key, files, objects, links>>
    /\ UNCHANGED OtherVars

\* tts_service.py 46-58: convert, open(output_path, 'wb'), write the chunks.
\* Whatever was at the path is replaced.
WriteFile(p) ==
    /\ r_pc[p] = "write"
    /\ files' = [files EXCEPT ![output_path[p]] = p]
    /\ r_pc' = [r_pc EXCEPT ![p] = "upload"]
    /\ UNCHANGED <<clock, output_path, s3_key, objects, links>>
    /\ UNCHANGED OtherVars

\* s3_service.upload_podcast: s3_key = f"podcasts/podcast_{timestamp}.mp3",
\* the timestamp taken again; upload_file sends what the file holds now, and
\* raises when there is no file.
UploadPodcast(p) ==
    /\ r_pc[p] = "upload"
    /\ IF files[output_path[p]] = NoRun
         THEN /\ r_pc' = [r_pc EXCEPT ![p] = "failed"]
              /\ UNCHANGED <<s3_key, objects>>
         ELSE /\ s3_key' = [s3_key EXCEPT ![p] = clock]
              /\ objects' = [objects EXCEPT ![clock] = files[output_path[p]]]
              /\ r_pc' = [r_pc EXCEPT ![p] = "record"]
    /\ UNCHANGED <<clock, output_path, files, links>>
    /\ UNCHANGED OtherVars

\* main.py 148-153: create_podcast_record(script, s3_link=s3_url)
RecordRun(p) ==
    /\ r_pc[p] = "record"
    /\ links' = [links EXCEPT ![p] = s3_key[p]]
    /\ r_pc' = [r_pc EXCEPT ![p] = "cleanup"]
    /\ UNCHANGED <<clock, output_path, s3_key, files, objects>>
    /\ UNCHANGED OtherVars

\* main.py 155-157: if os.path.exists(audio_path): os.remove(audio_path)
CleanupRun(p) ==
    /\ r_pc[p] = "cleanup"
    /\ files' = [files EXCEPT ![output_path[p]] = NoRun]
    /\ r_pc' = [r_pc EXCEPT ![p] = "done"]
    /\ UNCHANGED <<clock, output_path, s3_key, objects, links>>
    /\ UNCHANGED OtherVars

InitOverlap ==
    /\ Idle
    /\ NoRuns
    /\ tts_service = "tts_service"
    /\ NoSearch
    /\ NoAssembly

NextOverlap ==
    \/ Tick
    \/ \E p \in Runs : NameFile(p)
    \/ \E p \in Runs : WriteFile(p)
    \/ \E p \in Runs : UploadPodcast(p)
    \/ \E p \in Runs : RecordRun(p)
    \/ \E p \in Runs : CleanupRun(p)

SpecOverlap == InitOverlap /\ [][NextOverlap]_vars

\* ================================================================ claims
Range(f) == {f[i] : i \in DOMAIN f}
Before(a, b) ==
    \A i \in DOMAIN log : log[i] = b => \E j \in 1..(i - 1) : log[j] = a
RunRecords == {r \in podcasts : r.run = reqNo}
RunObjects == {o \in bucket : o.key = reqNo}

\* ---- C1: within one run of generate_podcast_from_user_preferences the TTS
\* call starts only after the script is assembled, the upload starts only
\* after the audio file is completely written, and the podcast record is
\* created only after the upload has returned a location.
C1_StepsTotallyOrdered ==
    req = "user" =>
        /\ Before("script", "tts_start")
        /\ Before("tts_start", "audio_written")
        /\ Before("audio_written", "upload_start")
        /\ Before("upload_done", "record_created")
        /\ pc \in {"write", "upload", "record", "cleanup", "respond"}
              => script = CreatePodcastScript(articles)
        /\ pc = "upload" => audio = "complete"
        /\ \A o \in RunObjects : o.body = "complete"
        /\ \A r \in RunRecords : r.s3_link # NoUrl /\ r.s3_link = s3_url
                                 /\ r.script = CreatePodcastScript(articles)

C1_Witness ==
    /\ req = "user"
    /\ pc = "done"
    /\ resp = "200"
    /\ RunRecords # {}
    /\ Len(articles) = MaxArticles

\* ---- C2: when script assembly, synthesis, upload or record persistence
\* fails in a podcast run, the run aborts (500) and the podcasts table has no
\* row of that run, then or later: rows are only ever added by the record
\* step of the current run, and only while none of these steps has failed.
FailedSteps == {"script_failed", "tts_failed", "upload_failed", "record_failed"}
StepFailed == \E i \in DOMAIN log : log[i] \in FailedSteps

C2_FailedRunNoRecord ==
    /\ [](req \in PodcastEndpoints /\ StepFailed
            => pc = "done" /\ resp = "500" /\ RunRecords = {})
    /\ [][\A r \in podcasts' \ podcasts :
              /\ r.run = reqNo
              /\ reqNo' = reqNo
              /\ pc = "record"
              /\ ~StepFailed]_vars

C2_Witness ==
    /\ req = "user"
    /\ pc = "done"
    /\ resp = "500"
    /\ \E i \in DOMAIN log : log[i] = "record_failed"
    /\ RunObjects # {}

\* ---- C3 (as claimed): every successful podcast run, whichever endpoint
\* served it, has created exactly one podcast record, which references the
\* uploaded audio location and the assembled script.
C3_EverySuccessfulRunRecords ==
    req \in PodcastEndpoints /\ pc = "done" /\ resp = "200" =>
        /\ Cardinality(RunRecords) = 1
        /\ \A r \in RunRecords : /\ r.s3_link = s3_url
                                 /\ [key |-> r.s3_link, body |-> "complete"] \in bucket
                                 /\ r.script = CreatePodcastScript(articles)

\* ---- C4: when retrieval returns an empty list the run ends with 404 after
\* that single retrieval, and nothing else was done in the run: no script, no
\* synthesis, no upload, no record.
C4_NoCandidatesTerminal ==
    req \in PodcastEndpoints /\ articles = <<>> /\ log # <<>> /\ log[1] = "fetch" =>
        /\ pc = "done"
        /\ resp = "404"
        /\ log = <<"fetch">>
        /\ script = NoScript
        /\ audio = "absent"
        /\ RunObjects = {}
        /\ RunRecords = {}

C4_Witness ==
    /\ req = "categories"
    /\ pc = "done"
    /\ resp = "404"
    /\ articles = <<>>

\* ------------------------------------------------------------ batch claims
BatchRows     == {r \in store : r.run = reqNo}
ReportedIds   == {a.article_id : a \in Range(response_data.articles)}
ReportedItems == {a.item : a \in Range(response_data.articles)}
ItemErrors    == {i \in DOMAIN response_data.errors : response_data.errors[i].idx # NoIndex}
LoopEntered   == req \in BatchEndpoints /\ pc \in {"loop", "done"} /\ Len(items) > 0
LoopFinished  == LoopEntered /\ idx = Len(items)

\* ---- C5 (as claimed): a failure on an item never keeps a later item from
\* succeeding: an item that succeeds when processed alone and comes after an
\* item that failed has, once the loop has passed it, been processed
\* successfully, and its row is in the transaction the commit will persist.
FailsAlone == {"notext", "nosummary", "tts_raise", "embed_raise", "flush_raise"}

C5_ItemFailureIsolated ==
    /\ req \in BatchEndpoints /\ pc = "loop" /\ idx >= 2
    /\ items[idx] = "ok"
    /\ \E j \in 1..(idx - 1) : items[j] \in FailsAlone
    => \E a \in Range(response_data.articles) :
          /\ a.item = idx - 1
          /\ \E r \in pending : r.id = a.article_id

\* ---- C6: the rows of a batch reach the store all at once or not at all:
\* no row of the batch is in the store before the commit, after a failed call
\* none is, and after a successful one exactly the rows of the successfully
\* processed items are.
C6_CommitAtomic ==
    req \in BatchEndpoints /\ pc # "idle" =>
        /\ pc # "done" => BatchRows = {}
        /\ pc = "done" /\ resp # "200" => BatchRows = {}
        /\ pc = "done" /\ resp = "200" => {r.id : r \in BatchRows} = ReportedIds

C6_Witness ==
    /\ req = "news"
    /\ pc = "done"
    /\ exc = "commit"
    /\ Len(response_data.articles) >= 2
    /\ BatchRows = {}

\* ---- C7 (as claimed): in a batch of n items where the embedding call gives
\* no vector for exactly one item k (it raises or returns None) and every
\* other step succeeds, the result has articles_found = n and exactly one
\* error entry, which names index k, and the store holds exactly the n - 1
\* other articles.
NoVector == {"embed_raise", "embed_null"}

C7_EmbeddingFailureReported ==
    /\ req = "news" /\ pc = "done" /\ resp = "200"
    /\ Len(items) > 0
    /\ response_data.articles_found = Len(items)
    /\ Cardinality({i \in DOMAIN items : items[i] \in NoVector}) = 1
    /\ \A i \in DOMAIN items : items[i] \in NoVector \cup {"ok"}
    => LET k == (CHOOSE i \in DOMAIN items : items[i] \in NoVector) - 1 IN
        /\ Len(response_data.errors) = 1
        /\ response_data.errors[1].idx = k
        /\ Cardinality(BatchRows) = Len(items) - 1
        /\ k \notin ReportedItems

\* ---- C8 (as claimed): every per-item error entry carries the item's index
\* and the item's URL.
C8_ErrorsNameIndexAndUrl ==
    req \in BatchEndpoints =>
        \A i \in ItemErrors :
            LET e == response_data.errors[i] IN e.url = Url(e.idx)

\* ---- C9 (as claimed): articles_with_audio is the number of items for which
\* the synthesizer produced an audio file during the batch.
C9_AudioCountIsFilesMade ==
    req = "news" /\ pc = "done" /\ resp = "200" =>
        response_data.articles_with_audio = Cardinality(audio_made)

\* ---- C10 (as claimed): a batch whose items all fail, with the store
\* reachable (no failure of the COMMIT itself), still returns a normal result
\* with nothing created and one error entry per item.
C10_AllFailedStillReturns ==
    /\ LoopFinished /\ pc = "done"
    /\ \A i \in DOMAIN items : items[i] \notin {"ok", "embed_null"}
    /\ exc # "commit"
    => /\ resp = "200"
       /\ response_data.articles = <<>>
       /\ Cardinality(ItemErrors) = Len(items)

\* ------------------------------------------------ similarity search claims
\* The rows of the table that have a vector, in the table's order.
WithVector(t) == SelectSeq(t, LAMBDA row : row.distance # NoDistance)

\* The search ran to its normal return: an embedding, a connection, a query
\* that worked, nothing caught.
SearchCompleted ==
    s_pc = "returned" /\ query_embedding = "vector" /\ caught = "none"

\* ---- C11 (as claimed): the returned list is ascending by distance, and
\* rows at the same distance are in ascending id order, whatever the order
\* in which the store returned the rows.
C11_SortedByDistanceThenId ==
    s_pc = "returned" =>
        \A i, j \in 1..Len(result) :
            i < j => \/ result[i].distance < result[j].distance
                     \/ /\ result[i].distance = result[j].distance
                        /\ result[i].id < result[j].id

\* ---- C12 (as claimed): when the query itself worked, no row without a
\* vector is in the result, and the result is what the search gives on the
\* table without those rows.
C12_NullVectorInvisible ==
    (s_pc = "returned" /\ query_embedding = "vector" /\ caught # "DatabaseError") =>
        /\ \A i \in 1..Len(result) : result[i].distance # NoDistance
        /\ result = RowsSorted(WithVector(table), top_k)

\* ---- C13 (as claimed): a completed search returns no row farther than the
\* caller's largest distance (1 - similarity_floor), at most top_k rows, and
\* those are the closest of the rows within that distance.
C13_WithinFloorAndLimit ==
    SearchCompleted =>
        LET within == {i \in 1..Len(table) :
                          /\ table[i].distance # NoDistance
                          /\ table[i].distance <= max_distance}
            got == {result[i] : i \in 1..Len(result)}
        IN  /\ Len(result) <= top_k
            /\ \A r \in got : r.distance <= max_distance
            /\ Len(result) = IF Cardinality(within) < top_k
                               THEN Cardinality(within) ELSE top_k
            /\ \A r \in got : \A i \in within :
                   table[i] \notin got => r.distance <= table[i].distance

\* ---- C14 (as claimed): when no embedding can be produced for the query
\* the search ends in an error, never in a returned list.
C14_EmbeddingUnavailable ==
    query_embedding = "None" => s_pc = "raised"

\* ---- C15 (as claimed): when the store cannot be reached or the query
\* fails, the search ends in an error, never in a returned list.
C15_StorageErrorSurfaced ==
    caught = "DatabaseError" => s_pc = "raised"

\* ------------------------------------------------- script assembly claims
\* The script the call returned, and the articles it was given.
Script    == Join(script_parts)
Assembled == a_pc = "done"
NArticles == Len(a_articles)

\* Where sub occurs in s.
Occurrences(sub, s) ==
    {p \in 1..(Len(s) + 1 - Len(sub)) : SubSeq(s, p, p + Len(sub) - 1) = sub}

\* Position in the script of the first chunk of the i-th article's segment.
RECURSIVE PartsLen(_, _)
PartsLen(parts, k) == IF k = 0 THEN 0 ELSE Len(parts[k]) + PartsLen(parts, k - 1)
HeadPos(i) == PartsLen(script_parts, i) + 1

\* What the i-th article's segment tells between its label line and its
\* source line.
SegmentContent(i) ==
    SubSeq(script_parts[i + 1], 3, Len(script_parts[i + 1]) - 4)

\* What the spec calls an article's content, category and source: the
\* summary if it is a non-empty string, else the text; a name that is
\* missing or null is absent.
ContentOf(article) ==
    IF article.summary.st = "str" /\ article.summary.v # <<>>
      THEN article.summary.v
      ELSE IF article.text.st = "str" THEN article.text.v ELSE <<>>
Absent(name) == name.st # "str"

\* The sources the script names, story after story.
SourcesNarrated ==
    LET lines == SelectSeq(Script, LAMBDA ch : ch.t = "source")
    IN  [k \in 1..Len(lines) |-> lines[k].s]

\* ---- C16: a request for explicit ids gets the stored articles among them
\* in the order of the ids, the ids of no article left out silently, and the
\* script narrates the stories in that order.
C16_ByIdsInInputOrder ==
    (Assembled /\ article_ids # <<>>) =>
        LET wanted == SelectSeq(article_ids, LAMBDA id : id \in ArticleIds)
        IN  /\ [k \in 1..NArticles |-> a_articles[k].id] = wanted
            /\ SourcesNarrated = [k \in 1..Len(wanted) |-> StoredArticle(wanted[k]).source.v]

\* Ids [2, 3, 1] with no article 3: articles 2 and 1, narrated in that order.
C16_Witness ==
    /\ Assembled
    /\ article_ids = <<2, 3, 1>>
    /\ NArticles = 2
    /\ SourcesNarrated = <<"post", "wire">>

\* ---- C17: for every list of n articles (n = 0 and duplicates included)
\* the assembly does not raise and gives exactly an intro stating n, then n
\* segments, the i-th one labelled i and telling the i-th article's content
\* from its start and its source, then an outro.
C17_IntroSegmentsOutro ==
    a_pc \in {"done", "raised"} =>
        /\ a_pc = "done"
        /\ Len(script_parts) = NArticles + 2
        /\ script_parts[1][1] = IntroLine(NArticles)
        /\ script_parts[NArticles + 2] = <<OutroLine>>
        /\ Cardinality({p \in 1..Len(Script) : Script[p].t = "intro"}) = 1
        /\ Cardinality({p \in 1..Len(Script) : Script[p].t = "outro"}) = 1
        /\ \A i \in 1..NArticles :
               LET part == script_parts[i + 1]
                       told == SegmentContent(i)
                       content == ContentOf(a_articles[i])
                   IN  /\ part[1].t = "label" /\ part[1].n = i
                       /\ IF content = <<>>
                            THEN told = <<>>
                            ELSE told # <<>> /\ told[1] = content[1]
                       /\ part[Len(part) - 2].t = "source"
                       /\ \/ Absent(a_articles[i].source)
                          \/ part[Len(part) - 2].s = a_articles[i].source.v

\* A list that holds the same article twice has been assembled.
C17_Witness ==
    /\ Assembled
    /\ NArticles = 2
    /\ a_articles[1] = a_articles[2]
    /\ Len(script_parts) = 4

\* The label the code writes for the i-th article.
LabelOf(i) ==
    Label(i, Format(Get(a_articles[i], "category_name", Str("General"))))

C19_TruncatedNeverWhole ==
    Assembled =>
        \A i \in 1..NArticles :
            LET content == ContentOf(a_articles[i])
            IN  IF Len(content) > TruncateAt
                  THEN /\ SegmentContent(i) = SubSeq(content, 1, TruncateAt) \o Marker
                       /\ Occurrences(content, Script) = {}
                  ELSE SegmentContent(i) = content

\* ---- C19 (amended): a content longer than the cut is told as exactly its
\* first TruncateAt chunks followed by the marker, and nothing of it past the
\* cut is told; a content within the cut is told unchanged, with no marker.
C19_TruncatedAtCut ==
    Assembled =>
        \A i \in 1..NArticles :
            LET content == ContentOf(a_articles[i])
            IN  IF Len(content) > TruncateAt
                  THEN /\ SegmentContent(i) = SubSeq(content, 1, TruncateAt) \o Marker
                       /\ Len(SegmentContent(i)) = TruncateAt + Len(Marker)
                  ELSE SegmentContent(i) = content

\* A content one chunk longer than the cut has been narrated.
C19_Witness ==
    /\ Assembled
    /\ \E i \in 1..NArticles :
           /\ Len(ContentOf(a_articles[i])) > TruncateAt
           /\ Len(SegmentContent(i)) = TruncateAt + 3

\* ---- C20 (as claimed): an article without a category (key missing or
\* null) is labelled "Story N: General", one without a source is given
\* "Source: Unknown source", and no null is written into the script.
C20_AbsentNamesDefaulted ==
    Assembled =>
        \A i \in 1..NArticles :
            LET part == script_parts[i + 1]
            IN  /\ Absent(a_articles[i].category_name) => part[1] = Label(i, "General")
                /\ Absent(a_articles[i].source)
                       => part[Len(part) - 2] = SourceLine("Unknown source")

\* ------------------------------------------------- podcast run claims (2)
InLog(name) == \E i \in DOMAIN log : log[i] = name

\* ---- C21 (as claimed): what a podcast run retains, its podcast record,
\* carries next to the script the ids of the articles the script was made
\* from, in the order they were narrated.
C21_RecordKeepsArticleIds ==
    req \in PodcastEndpoints =>
        \A r \in RunRecords :
            /\ "article_ids" \in DOMAIN r
            /\ r.article_ids = [i \in 1..Len(articles) |-> articles[i].id]

\* ---- C22 (as claimed): synthesis is all-or-nothing: a TTS stream that
\* breaks after some chunks leaves no partly written audio file at the output
\* path.
C22_NoPartialAudio ==
    req \in PodcastEndpoints => audio # "partial"

\* ---- C23 (as claimed): what the caller of a failed run receives is the
\* error of the step that failed, so that a synthesis failure and a storage
\* failure are told apart.
ErrorKind ==
    IF InLog("tts_failed") THEN "SynthesisError" ELSE "StorageError"

C23_ErrorKindSurfaced ==
    (req \in PodcastEndpoints /\ pc = "done"
        /\ (InLog("tts_failed") \/ InLog("upload_failed") \/ InLog("record_failed")))
    => resp = ErrorKind

\* ---- C27: in generate_podcast_from_user_preferences the local audio file
\* is removed only by the clean-up step and only once the run's record is in
\* the podcasts table; when the upload or the record creation fails the file
\* is still complete on disk, and after a failed record creation the uploaded
\* object is still in the bucket.
C27_CleanupOnlyAfterRecord ==
    /\ [](req = "user" =>
            /\ (InLog("audio_written") /\ audio = "absent")
                   => (InLog("record_created") /\ RunRecords # {})
            /\ (InLog("upload_failed") \/ InLog("record_failed"))
                   => (pc = "done" /\ audio = "complete")
            /\ InLog("record_failed")
                   => [key |-> reqNo, body |-> "complete"] \in bucket)
    /\ [][(req = "user" /\ req' = "user" /\ audio = "complete" /\ audio' # audio)
              => (pc = "cleanup" /\ RunRecords # {})]_vars
    /\ [][(req = "user" /\ req' = "user") => bucket \subseteq bucket']_vars

\* The record creation failed: the file and the uploaded object are there.
C27_Witness ==
    /\ req = "user"
    /\ pc = "done"
    /\ InLog("record_failed")
    /\ audio = "complete"
    /\ [key |-> reqNo, body |-> "complete"] \in bucket

\* ---- C24 (as claimed): the articles table only grows: whatever operation
\* the system serves, every row that is in the table stays in it, with the
\* vector it has.
C24_StoreOnlyGrows ==
    [][\A r \in store : r \in store']_vars

\* ---- C26: in generate_news_with_audio every extracted item leaves exactly
\* one outcome: one entry more in errors and nothing else, or one entry more
\* in articles and both counters one higher.  So articles_processed,
\* articles_with_audio and the length of articles are equal throughout, the
\* successes and the per-item errors add up to the items the loop has passed,
\* and to all extracted items once it has finished.
NewsRun == req = "news" /\ tts_service # "None"

C26_OneOutcomePerItem ==
    /\ [](NewsRun =>
            /\ response_data.articles_processed = response_data.articles_with_audio
            /\ response_data.articles_processed = Len(response_data.articles)
            /\ LoopEntered
                 => response_data.articles_processed + Cardinality(ItemErrors) = idx
            /\ LoopFinished
                 => response_data.articles_processed + Cardinality(ItemErrors) = Len(items))
    /\ [][(NewsRun /\ pc = "loop" /\ idx' = idx + 1) =>
            \/ /\ Len(response_data'.errors) = Len(response_data.errors) + 1
               /\ response_data'.errors[Len(response_data'.errors)].idx = idx
               /\ response_data'.articles = response_data.articles
               /\ response_data'.articles_processed = response_data.articles_processed
               /\ response_data'.articles_with_audio = response_data.articles_with_audio
            \/ /\ response_data'.errors = response_data.errors
               /\ Len(response_data'.articles) = Len(response_data.articles) + 1
               /\ response_data'.articles_processed = response_data.articles_processed + 1
               /\ response_data'.articles_with_audio = response_data.articles_with_audio + 1]_vars

\* A finished loop that had a success and a failure among its items.
C26_Witness ==
    /\ NewsRun
    /\ LoopFinished
    /\ Len(items) >= 2
    /\ response_data.articles_processed >= 1
    /\ Cardinality(ItemErrors) >= 1

\* ---- C25 (as claimed): two podcast runs that overlap do not interfere:
\* their local file names differ and their S3 keys differ, a run finds its
\* own audio in its file from the moment it wrote it until it removes it,
\* and the object a run uploaded keeps holding that run's audio.
C25_RunsDoNotInterfere ==
    /\ \A p, q \in Runs :
           p # q =>
               /\ (output_path[p] # NoFile /\ output_path[q] # NoFile)
                      => output_path[p] # output_path[q]
               /\ (s3_key[p] # NoFile /\ s3_key[q] # NoFile) => s3_key[p] # s3_key[q]
    /\ \A p \in Runs :
           /\ r_pc[p] \in {"upload", "record", "cleanup"} => files[output_path[p]] = p
           /\ r_pc[p] # "failed"
           /\ s3_key[p] # NoFile => objects[s3_key[p]] = p
====
